---- MODULE Spec2Model ----
(***************************************************************************)
(* A model of ahiho/gormmigrate: the migration engine of migrate.go        *)
(* (Migrate.Migrate and the ledger operations it calls) and the            *)
(* package-level configuration gate of genmigration.go (Config,            *)
(* ExecuteCommand, MigrateDB).                                             *)
(*                                                                         *)
(* The database is the pair (table, ledger): whether the ledger table      *)
(* exists and the set of identifiers in its primary-key column.  Every     *)
(* statement sent to the database, every migration function and the        *)
(* init-schema function either succeeds or fails; the choice is made by    *)
(* \E ok \in BOOLEAN in the step that performs the call.                   *)
(***************************************************************************)
EXTENDS Integers, Sequences, FiniteSets, TLC

\* ------------------------------------------------------------------------
\* Bounds of the model
\* ------------------------------------------------------------------------
MaxLen == 3     \* longest migration list
MaxRuns == 2    \* calls of Migrate in one behaviour

\* Migration identifiers: the empty string and three timestamp-like names.
Ids == {"", "a", "b", "c"}

\* The goroutines that may call into the package.
Procs == {"p1", "p2"}

\* ------------------------------------------------------------------------
\* Errors
\* ------------------------------------------------------------------------
Nil == "nil"
ErrMissingID == "missing ID in migration"
ErrNotConfigured == "migration not configured"
ErrInvalidOption == "invalid migration option"
ErrInvalidCommand == "invalid migration command"
ErrNameRequired == "name of migrations is required"
\* Errors that come from outside the package: a failed statement (tx.Error),
\* a failed migration function, a failed init-schema function, a failed
\* generateMigrations.
ErrCreateTable == "db error: create table"
ErrDidRun == "db error: select count where id"
ErrInsert == "db error: insert"
ErrMigrateFunc == "migrate func error"
ErrInitSchemaFunc == "init schema func error"
ErrGenerate == "generate error"

\* ------------------------------------------------------------------------
\* The command surface
\* ------------------------------------------------------------------------
CommandGenerate == "generate"
CommandMigrate == "migrate"

\* *MigrationOption values: nil, or a struct with a Store that is nil or not.
NilOp == [nil |-> TRUE, DstFolder |-> "", Store |-> "nil"]
Options == {NilOp} \cup [nil : {FALSE}, DstFolder : {"", "out"}, Store : {"nil", "store"}]

\* Argument vectors handed to ExecuteCommand.
ArgLists == {<<>>, <<"bogus">>, <<CommandGenerate>>, <<CommandGenerate, "name">>, <<CommandMigrate>>}

isInStringArr(arr, s) == \E k \in 1..Len(arr) : arr[k] = s

VARIABLES
    migrations,   \* Store.Migrations(): the ordered list, as identifiers
    initSchema,   \* whether InitSchema was called on an engine built with New
    table,        \* the ledger table exists
    ledger,       \* identifiers in the ledger table
    migrationOp,  \* package variable migrationOp
    db,           \* package variable db
    run,          \* per goroutine: the call of Migrate in progress
    runs,         \* calls of Migrate so far
    prev,         \* what the previous call of Migrate returned ("none" before it)
    ret,          \* the last call of the package: its name, argument and result
    applied,      \* per list position: successful returns of its Migrate func
    lostInsert,   \* per list position: failed inserts after such a return
    initDone,     \* successful returns of the init-schema function
    configured    \* some call of Config has returned nil

vars == <<migrations, initSchema, table, ledger, migrationOp, db, run, runs,
          prev, ret, applied, lostInsert, initDone, configured>>

Lists == UNION {[1..n -> Ids] : n \in 0..MaxLen}

\* A goroutine that is not inside Migrate.
IdleRun == [pc |-> "idle", via |-> "none", i |-> 0, initSchema |-> FALSE, err |-> Nil,
            path |-> "none", startLedger |-> {}, invoked |-> <<>>, inserted |-> <<>>,
            initCalls |-> 0, initFailed |-> FALSE, failedAt |-> 0,
            failedOp |-> "none", ranAfterFail |-> FALSE]

NoRet == [op |-> "none", arg |-> <<>>, err |-> Nil]

Init ==
    /\ migrations \in Lists
    /\ initSchema \in BOOLEAN
    /\ table \in BOOLEAN
    /\ ledger \in SUBSET Ids
    /\ (~table => ledger = {})
    /\ migrationOp = NilOp
    /\ db = "nil"
    /\ run = [p \in Procs |-> IdleRun]
    /\ runs = 0
    /\ prev = "none"
    /\ ret = NoRet
    /\ applied = [k \in 1..Len(migrations) |-> 0]
    /\ lostInsert = [k \in 1..Len(migrations) |-> 0]
    /\ initDone = 0
    /\ configured = FALSE

\* No call of Migrate is in progress.
Idle == \A q \in Procs : run[q].pc = "idle"

dbState == <<table, ledger>>
engineState == <<run, runs, prev, applied, lostInsert, initDone>>
configState == <<migrationOp, db, configured>>
inputs == <<migrations, initSchema>>
\* ------------------------------------------------------------------------
\* The ledger operations (migrate.go)
\* ------------------------------------------------------------------------

\* A variant of HasTable that always reports the table present.
HasTableAlways(ok) == TRUE

\* gorm's Migrator().HasTable returns a bare bool: false when its query fails.
HasTable(ok) == ok /\ table

\* CREATE TABLE fails when the statement fails or the table is already there.
CreateTableOk(ok) == ok /\ ~table

\* SELECT COUNT(*) FROM table WHERE id = ?
CountWhere(id) == IF id \in ledger THEN 1 ELSE 0

\* A variant of DidRun that takes one row for none.
DidRunOffByOne(count) == count > 1

\* migrationDidRun: count > 0
DidRun(count) == count > 0

\* isFirstRun: Scan's error is dropped and count keeps its zero value.
CountAll(ok) == IF ok THEN Cardinality(ledger) ELSE 0

\* A variant of FirstRun that takes any count for a first run.
FirstRunAlways(count) == count >= 0

\* isFirstRun: return count == 0
FirstRun(count) == count = 0

\* A variant of Inserted that writes no row.
InsertedNothing(id) == ledger

\* A variant of InsertOk for a table without the primary key.
InsertOkNoKey(id, ok) == ok

\* insertMigration: INSERT fails when the statement fails or the primary key
\* is already present.
InsertOk(id, ok) == ok /\ id \notin ledger

\* A variant of Inserted that overwrites the rows of the table.
InsertedReplacing(id) == {id}

\* The ledger after a successful INSERT of id.
Inserted(id) == ledger \cup {id}

\* ------------------------------------------------------------------------
\* Control flow of one call of Migrate
\* ------------------------------------------------------------------------

SetRun(p, r) == run' = [run EXCEPT ![p] = r]

\* A variant of Abort that remembers the error and goes on with the list.
AbortLate(r, e) ==
    IF r.i < Len(migrations)
    THEN [r EXCEPT !.err = e, !.pc = "runMigration", !.i = r.i + 1]
    ELSE [r EXCEPT !.err = e, !.pc = "done"]

\* return err
Abort(r, e) == [r EXCEPT !.pc = "done", !.err = e]

\* A ledger statement of this call failed (the first one is remembered).
Failed(r, op) == [r EXCEPT !.failedOp = IF @ = "none" THEN op ELSE @]

\* A variant of Loop that stops one migration short.
LoopOffByOne(r, k) ==
    IF k >= Len(migrations)
    THEN [r EXCEPT !.pc = "done", !.err = Nil, !.i = k]
    ELSE [r EXCEPT !.pc = "runMigration", !.i = k]

\* for _, migration := range m.migrations { runMigration } ; return nil
Loop(r, k) ==
    IF k > Len(migrations)
    THEN [r EXCEPT !.pc = "done", !.err = Nil, !.i = k]
    ELSE [r EXCEPT !.pc = "runMigration", !.i = k]

\* A variant of InitLoop that stops one migration short.
InitLoopOffByOne(r, k) ==
    IF k >= Len(migrations)
    THEN [r EXCEPT !.pc = "done", !.err = Nil, !.i = k]
    ELSE [r EXCEPT !.pc = "insertInit", !.i = k]

\* for _, migration := range m.migrations { insertMigration } ; return nil
InitLoop(r, k) ==
    IF k > Len(migrations)
    THEN [r EXCEPT !.pc = "done", !.err = Nil, !.i = k]
    ELSE [r EXCEPT !.pc = "insertInit", !.i = k]

\* A variant of AfterCreateTable that starts the list at its second entry.
AfterCreateTableFromSecond(r) ==
    IF r.initSchema
    THEN [r EXCEPT !.pc = "isFirstRun"]
    ELSE Loop([r EXCEPT !.path = "incremental"], 2)

\* if m.initSchema != nil && m.isFirstRun()
AfterCreateTable(r) ==
    IF r.initSchema
    THEN [r EXCEPT !.pc = "isFirstRun"]
    ELSE Loop([r EXCEPT !.path = "incremental"], 1)

\* Variants of OnMigrateError that drop the error: one goes on to the insert,
\* the other goes on to the next migration.
OnMigrateErrorInsert(r) == [r EXCEPT !.pc = "insert"]

OnMigrateErrorContinue(r) == Loop(r, r.i + 1)

\* if err := migration.Migrate(m.db); err != nil { return err }
OnMigrateError(r) == Abort(r, ErrMigrateFunc)

\* if err := m.initSchema(m.db); err != nil { return err }
OnInitSchemaError(r) == Abort(r, ErrInitSchemaFunc)

\* if len(migration.ID) == 0 { return ErrMissingID }
MissingID(id) == Len(id) = 0

StartRun(via, arg, init) ==
    [IdleRun EXCEPT !.pc = "createTable", !.via = via, !.initSchema = init,
                    !.startLedger = ledger]

Begin(p, via, arg, init) ==
    /\ Idle
    /\ runs < MaxRuns
    /\ runs' = runs + 1
    /\ SetRun(p, StartRun(via, arg, init))
    /\ ret' = [op |-> via, arg |-> arg, err |-> "pending"]
    /\ UNCHANGED <<inputs, dbState, configState, prev, applied, lostInsert, initDone>>

\* m := New(db, options, migrations); [m.InitSchema(f);] m.Migrate()
Migrate(p) == Begin(p, "Migrate", <<>>, initSchema)

createMigrationTableIfNotExists(p) ==
    LET r == run[p] IN
    /\ r.pc = "createTable"
    /\ \E hasOk, execOk \in BOOLEAN :
        IF HasTable(hasOk)
        THEN /\ SetRun(p, AfterCreateTable(r))
             /\ UNCHANGED table
        ELSE IF CreateTableOk(execOk)
        THEN /\ table' = TRUE
             /\ SetRun(p, AfterCreateTable(r))
        ELSE /\ SetRun(p, Abort(Failed(r, "createTable"), ErrCreateTable))
             /\ UNCHANGED table
    /\ UNCHANGED <<inputs, ledger, configState, runs, prev, ret, applied, lostInsert, initDone>>

isFirstRun(p) ==
    LET r == run[p] IN
    /\ r.pc = "isFirstRun"
    /\ \E ok \in BOOLEAN :
        LET r1 == IF ok THEN r ELSE Failed(r, "isFirstRun") IN
        IF FirstRun(CountAll(ok))
        THEN SetRun(p, [r1 EXCEPT !.pc = "runInitSchema", !.path = "bootstrap"])
        ELSE SetRun(p, Loop([r1 EXCEPT !.path = "incremental"], 1))
    /\ UNCHANGED <<inputs, dbState, configState, runs, prev, ret, applied, lostInsert, initDone>>

runInitSchema(p) ==
    LET r == run[p]
        r1 == [r EXCEPT !.initCalls = @ + 1,
                        !.ranAfterFail = @ \/ r.failedOp # "none"] IN
    /\ r.pc = "runInitSchema"
    /\ \E ok \in BOOLEAN :
        IF ok
        THEN /\ initDone' = initDone + 1
             /\ SetRun(p, InitLoop(r1, 1))
        ELSE /\ SetRun(p, OnInitSchemaError([r1 EXCEPT !.initFailed = TRUE]))
             /\ UNCHANGED initDone
    /\ UNCHANGED <<inputs, dbState, configState, runs, prev, ret, applied, lostInsert>>

runInitSchemaInsert(p) ==
    LET r == run[p]
        id == migrations[r.i] IN
    /\ r.pc = "insertInit"
    /\ \E ok \in BOOLEAN :
        IF InsertOk(id, ok)
        THEN /\ ledger' = Inserted(id)
             /\ SetRun(p, InitLoop([r EXCEPT !.inserted = Append(@, r.i)], r.i + 1))
        ELSE /\ SetRun(p, Abort(Failed(r, "insert"), ErrInsert))
             /\ UNCHANGED ledger
    /\ UNCHANGED <<inputs, table, configState, runs, prev, ret, applied, lostInsert, initDone>>

runMigration(p) ==
    LET r == run[p]
        id == migrations[r.i] IN
    /\ r.pc = "runMigration"
    /\ IF MissingID(id)
       THEN SetRun(p, Abort(r, ErrMissingID))
       ELSE \E ok \in BOOLEAN :
            IF ~ok
            THEN SetRun(p, Abort(Failed(r, "didRun"), ErrDidRun))
            ELSE IF DidRun(CountWhere(id))
            THEN SetRun(p, Loop(r, r.i + 1))
            ELSE SetRun(p, [r EXCEPT !.pc = "migrate"])
    /\ UNCHANGED <<inputs, dbState, configState, runs, prev, ret, applied, lostInsert, initDone>>

runMigrationMigrate(p) ==
    LET r == run[p]
        r1 == [r EXCEPT !.invoked = Append(@, r.i),
                        !.ranAfterFail = @ \/ r.failedOp # "none"] IN
    /\ r.pc = "migrate"
    /\ \E ok \in BOOLEAN :
        IF ok
        THEN /\ applied' = [applied EXCEPT ![r.i] = @ + 1]
             /\ SetRun(p, [r1 EXCEPT !.pc = "insert"])
        ELSE /\ SetRun(p, OnMigrateError([r1 EXCEPT !.failedAt = r.i]))
             /\ UNCHANGED applied
    /\ UNCHANGED <<inputs, dbState, configState, runs, prev, ret, lostInsert, initDone>>

runMigrationInsert(p) ==
    LET r == run[p]
        id == migrations[r.i] IN
    /\ r.pc = "insert"
    /\ \E ok \in BOOLEAN :
        IF InsertOk(id, ok)
        THEN /\ ledger' = Inserted(id)
             /\ SetRun(p, Loop([r EXCEPT !.inserted = Append(@, r.i)], r.i + 1))
             /\ UNCHANGED lostInsert
        ELSE /\ SetRun(p, Abort(Failed(r, "insert"), ErrInsert))
             /\ lostInsert' = [lostInsert EXCEPT ![r.i] = @ + 1]
             /\ UNCHANGED ledger
    /\ UNCHANGED <<inputs, table, configState, runs, prev, ret, applied, initDone>>

\* Migrate returns to its caller.
Return(p) ==
    LET r == run[p] IN
    /\ r.pc = "done"
    /\ SetRun(p, IdleRun)
    /\ prev' = r.err
    /\ ret' = [ret EXCEPT !.err = r.err]
    /\ UNCHANGED <<inputs, dbState, configState, runs, applied, lostInsert, initDone>>

Next ==
    \E p \in Procs :
        \/ Migrate(p)
        \/ createMigrationTableIfNotExists(p)
        \/ isFirstRun(p)
        \/ runInitSchema(p)
        \/ runInitSchemaInsert(p)
        \/ runMigration(p)
        \/ runMigrationMigrate(p)
        \/ runMigrationInsert(p)
        \/ Return(p)

Spec == Init /\ [][Next]_vars

\* ------------------------------------------------------------------------
\* The package-level commands (genmigration.go)
\* ------------------------------------------------------------------------

\* A call that returns at once: nothing but ret (and what the caller names) changes.
Returns(op, arg, e) == ret' = [op |-> op, arg |-> arg, err |-> e]

\* The argument of Config as strings, for ret.arg.
OptionArg(op) == IF op.nil THEN <<"nil">> ELSE <<"option", op.Store, op.DstFolder>>

\* A variant of InvalidOption that does not look at the Store.
InvalidOptionNilOnly(op) == op.nil

\* if op == nil || op.Store == nil
InvalidOption(op) == op.nil \/ op.Store = "nil"

\* if migrationOp.DstFolder == "" { migrationOp.DstFolder = "migrations" }
WithDstFolder(op) == [op EXCEPT !.DstFolder = IF @ = "" THEN "migrations" ELSE @]

Config(op) ==
    /\ Idle
    /\ IF InvalidOption(op)
       THEN /\ Returns("Config", OptionArg(op), ErrInvalidOption)
            /\ UNCHANGED configState
       ELSE /\ migrationOp' = WithDstFolder(op)
            /\ db' = "conn"
            /\ configured' = TRUE
            /\ Returns("Config", OptionArg(op), Nil)
    /\ UNCHANGED <<inputs, dbState, engineState>>

\* if migrationOp == nil { return ErrNotConfigured }
NotConfigured == migrationOp.nil

\* m := New(db, &Options{...}, migrationOp.Store.Migrations()); return m.Migrate()
\* New leaves initSchema nil.
MigrateDBFrom(p, via, arg) ==
    IF NotConfigured
    THEN /\ Idle
         /\ Returns(via, arg, ErrNotConfigured)
         /\ UNCHANGED <<inputs, dbState, configState, engineState>>
    ELSE Begin(p, via, arg, FALSE)

MigrateDB(p) == MigrateDBFrom(p, "MigrateDB", <<>>)

\* generateMigrations works in a transaction it rolls back and writes a file
\* under migrations/; it does not touch the ledger.
generateMigrations(arg) ==
    /\ \E ok \in BOOLEAN : Returns("ExecuteCommand", arg, IF ok THEN Nil ELSE ErrGenerate)
    /\ UNCHANGED <<inputs, dbState, configState, engineState>>

ExecuteCommand(p, args) ==
    /\ Idle
    /\ IF NotConfigured
       THEN /\ Returns("ExecuteCommand", args, ErrNotConfigured)
            /\ UNCHANGED <<inputs, dbState, configState, engineState>>
       ELSE IF Len(args) = 0
       THEN /\ Returns("ExecuteCommand", args, ErrInvalidCommand)
            /\ UNCHANGED <<inputs, dbState, configState, engineState>>
       ELSE IF ~isInStringArr(<<CommandGenerate, CommandMigrate>>, args[1])
       THEN /\ Returns("ExecuteCommand", args, ErrInvalidCommand)
            /\ UNCHANGED <<inputs, dbState, configState, engineState>>
       ELSE IF args[1] = CommandGenerate
       THEN IF Len(args) < 2
            THEN /\ Returns("ExecuteCommand", args, ErrNameRequired)
                 /\ UNCHANGED <<inputs, dbState, configState, engineState>>
            ELSE generateMigrations(args)
       ELSE MigrateDBFrom(p, "ExecuteCommand", args)

\* The command surface together with the engine.
NextCmd ==
    \/ Next
    \/ \E op \in Options : Config(op)
    \/ \E p \in Procs : MigrateDB(p)
    \/ \E p \in Procs, args \in ArgLists : ExecuteCommand(p, args)

\* The command surface is explored over short migration lists.
MaxCmdLen == 1

InitCmd == Init /\ Len(migrations) <= MaxCmdLen

SpecCmd == InitCmd /\ [][NextCmd]_vars

\* ------------------------------------------------------------------------
\* Progress of a call
\* ------------------------------------------------------------------------

\* The statements of Migrate between its entry and its return.
Step(p) ==
    \/ createMigrationTableIfNotExists(p)
    \/ isFirstRun(p)
    \/ runInitSchema(p)
    \/ runInitSchemaInsert(p)
    \/ runMigration(p)
    \/ runMigrationMigrate(p)
    \/ runMigrationInsert(p)

\* A goroutine inside Migrate goes on to its next statement: every call it
\* makes (a statement, a migration function, the init-schema function)
\* comes back, with or without an error.
Fairness == \A p \in Procs : WF_vars(Step(p))

\* Progress is examined over lists of at most MaxLiveLen migrations.
MaxLiveLen == 2

InitLive == Init /\ Len(migrations) <= MaxLiveLen

SpecLive == InitLive /\ [][Next]_vars /\ Fairness

\* ------------------------------------------------------------------------
\* Engines that run concurrently
\* ------------------------------------------------------------------------

\* m.Migrate() called while another goroutine may be inside Migrate: the
\* engine takes no lock, so nothing holds the call back.
MigrateConcurrently(p) ==
    /\ run[p].pc = "idle"
    /\ runs < MaxRuns
    /\ runs' = runs + 1
    /\ SetRun(p, StartRun("Migrate", <<>>, initSchema))
    /\ ret' = [op |-> "Migrate", arg |-> <<>>, err |-> "pending"]
    /\ UNCHANGED <<inputs, dbState, configState, prev, applied, lostInsert, initDone>>

NextConc ==
    \E p \in Procs :
        \/ MigrateConcurrently(p)
        \/ createMigrationTableIfNotExists(p)
        \/ isFirstRun(p)
        \/ runInitSchema(p)
        \/ runInitSchemaInsert(p)
        \/ runMigration(p)
        \/ runMigrationMigrate(p)
        \/ runMigrationInsert(p)
        \/ Return(p)

\* Concurrent engines are explored over short migration lists.
MaxConcLen == 1

InitConc == Init /\ Len(migrations) <= MaxConcLen

SpecConc == InitConc /\ [][NextConc]_vars

\* ------------------------------------------------------------------------
\* Vocabulary of the properties
\* ------------------------------------------------------------------------
Positions == 1..Len(migrations)

Range(s) == {s[k] : k \in 1..Len(s)}

UniqueIds == \A j, k \in Positions : migrations[j] = migrations[k] => j = k

NonEmptyIds == \A k \in Positions : migrations[k] # ""

IsPrefix(s, t) == Len(s) <= Len(t) /\ \A k \in 1..Len(s) : s[k] = t[k]

\* The positions of the list, in list order, whose identifier is not in S.
PendingAt(S) ==
    SelectSeq([k \in Positions |-> k], LAMBDA k : migrations[k] \notin S)

Done(p) == run[p].pc = "done"

\* ------------------------------------------------------------------------
\* C1  Idempotency
\* ------------------------------------------------------------------------

\* C1 (as stated): for a list of unique non-empty identifiers, a run of Migrate
\* that follows another run ends with the ledger it started with (the ledger
\* the previous run left), and invokes no action of a migration that was
\* recorded when it started.
C1_AnySecondRun ==
    \A p \in Procs :
        (Done(p) /\ prev # "none" /\ UniqueIds /\ NonEmptyIds) =>
            /\ ledger = run[p].startLedger
            /\ \A k \in Range(run[p].invoked) : migrations[k] \notin run[p].startLedger

\* C1 (amended): the same, for a run that follows a run that returned no
\* error; and no run at all invokes the action of a migration that was
\* recorded when it started.
C1_Idempotent ==
    \A p \in Procs :
        /\ (Done(p) /\ prev = Nil /\ UniqueIds /\ NonEmptyIds) =>
                ledger = run[p].startLedger
        /\ (UniqueIds /\ NonEmptyIds) =>
                \A k \in Range(run[p].invoked) : migrations[k] \notin run[p].startLedger

\* A second run has ended after a first run that applied two migrations.
C1_Witness ==
    \E p \in Procs :
        /\ Done(p) /\ prev = Nil /\ run[p].err = Nil
        /\ UniqueIds /\ NonEmptyIds /\ Len(migrations) >= 2
        /\ applied[1] = 1 /\ applied[2] = 1
        /\ run[p].invoked = <<>>
        /\ run[p].path = "incremental"

\* ------------------------------------------------------------------------
\* C2  Ordering
\* ------------------------------------------------------------------------

\* C2 (as stated, and granting the list unique identifiers): a run that took
\* the incremental path has invoked exactly the migrations whose identifier
\* was not in the ledger, in list order.
C2_ExactlyPending ==
    \A p \in Procs :
        (Done(p) /\ run[p].path = "incremental" /\ UniqueIds) =>
            run[p].invoked = PendingAt(run[p].startLedger)

\* C2 (amended): on the incremental path over a list of unique identifiers the
\* actions invoked so far are a prefix, in list order, of the migrations whose
\* identifier was not in the ledger when the run started; they are all of
\* them once the run has returned no error; and an action is only ever about
\* to be invoked for an identifier that is not in the ledger.
C2_Ordering ==
    \A p \in Procs :
        (run[p].path = "incremental" /\ UniqueIds) =>
            /\ IsPrefix(run[p].invoked, PendingAt(run[p].startLedger))
            /\ (Done(p) /\ run[p].err = Nil) =>
                    run[p].invoked = PendingAt(run[p].startLedger)
            /\ run[p].pc = "migrate" => migrations[run[p].i] \notin ledger

\* [a, b, c] with only b recorded: a then c have run.
C2_Witness ==
    \E p \in Procs :
        /\ Done(p) /\ run[p].err = Nil /\ run[p].path = "incremental"
        /\ migrations = <<"a", "b", "c">>
        /\ run[p].startLedger = {"b"}
        /\ run[p].invoked = <<1, 3>>

\* ------------------------------------------------------------------------
\* C3  Fail-stop
\* ------------------------------------------------------------------------

\* C3: when the action of the migration at position k has failed, the run
\* returns that error, nothing at a later position was invoked or recorded
\* in the run, the failed identifier is not in the ledger, and every
\* migration the run applied before it is recorded.
C3_FailStop ==
    \A p \in Procs :
        (Done(p) /\ run[p].failedAt # 0) =>
            LET k == run[p].failedAt IN
            /\ run[p].err = ErrMigrateFunc
            /\ \A j \in Positions :
                 j > k => j \notin Range(run[p].invoked) /\ j \notin Range(run[p].inserted)
            /\ k \notin Range(run[p].inserted)
            /\ migrations[k] \notin ledger
            /\ \A j \in Range(run[p].invoked) : j # k => migrations[j] \in ledger

\* [A, B, C]: A was applied and recorded in the run, then B failed.
C3_Witness ==
    \E p \in Procs :
        /\ Done(p) /\ run[p].failedAt = 2 /\ Len(migrations) = 3
        /\ run[p].invoked = <<1, 2>>
        /\ run[p].inserted = <<1>>
        /\ migrations[1] \in ledger

\* ------------------------------------------------------------------------
\* C4  Empty-identifier rejection
\* ------------------------------------------------------------------------

\* C4 (as stated, and granting that no statement and no function of the run
\* fails): a run over a list that holds "" returns ErrMissingID, invokes no
\* action at or after a position that holds "", and records no "".
C4_EmptyIdRejected ==
    \A p \in Procs :
        (/\ Done(p)
         /\ \E k \in Positions : migrations[k] = ""
         /\ run[p].failedOp = "none" /\ run[p].failedAt = 0 /\ ~run[p].initFailed) =>
            /\ run[p].err = ErrMissingID
            /\ \A k \in Positions : migrations[k] = "" =>
                 /\ k \notin Range(run[p].inserted)
                 /\ \A j \in Range(run[p].invoked) : j < k

\* ------------------------------------------------------------------------
\* C5  Bootstrap shortcut
\* ------------------------------------------------------------------------
ListIds == {migrations[k] : k \in Positions}

\* C5 (as stated, and granting that the run reached the init-schema function
\* and that the function returned no error): a run with an init-schema
\* function that started on an empty ledger has called the init-schema
\* function exactly once, invoked no migration action, and left every
\* identifier of the list in the ledger.
C5_BootstrapAlways ==
    \A p \in Procs :
        (/\ Done(p) /\ run[p].initSchema /\ run[p].startLedger = {}
         /\ run[p].path = "bootstrap" /\ ~run[p].initFailed /\ UniqueIds) =>
            /\ run[p].initCalls = 1
            /\ run[p].invoked = <<>>
            /\ ListIds \subseteq ledger

\* C5 (amended): such a run calls the init-schema function at most once and
\* invokes no migration action; when it returns no error it has called the
\* init-schema function exactly once and every identifier of the list is in
\* the ledger.
C5_Bootstrap ==
    \A p \in Procs :
        (run[p].initSchema /\ run[p].startLedger = {} /\ run[p].pc # "idle") =>
            /\ run[p].initCalls <= 1
            /\ run[p].invoked = <<>>
            /\ (Done(p) /\ run[p].err = Nil) =>
                    /\ run[p].initCalls = 1
                    /\ ListIds \subseteq ledger

\* A fresh database, three migrations, all recorded by the bootstrap.
C5_Witness ==
    \E p \in Procs :
        /\ Done(p) /\ run[p].initSchema /\ run[p].startLedger = {} /\ run[p].err = Nil
        /\ Len(migrations) = 3 /\ UniqueIds
        /\ run[p].initCalls = 1
        /\ run[p].inserted = <<1, 2, 3>>
        /\ ListIds \subseteq ledger

\* ------------------------------------------------------------------------
\* C6  Exactly-once application
\* ------------------------------------------------------------------------

\* C6 (as stated): over a list of unique identifiers no action returns
\* success more than once.
C6_AtMostOnce == UniqueIds => \A k \in Positions : applied[k] <= 1

\* C6 (amended): an action returns success at most once more than the number
\* of times the insert that follows its success has failed.
C6_OncePerLostInsert ==
    UniqueIds => \A k \in Positions : applied[k] <= 1 + lostInsert[k]

\* An action has succeeded twice: its first insert was lost.
C6_Witness ==
    /\ UniqueIds
    /\ \E k \in Positions : applied[k] = 2 /\ lostInsert[k] = 1 /\ migrations[k] \in ledger

\* ------------------------------------------------------------------------
\* C7  Linear ordering
\* ------------------------------------------------------------------------

\* C7: whenever the action at position i is about to be invoked, and after
\* every invocation, the identifier at every earlier position is in the
\* ledger.
C7_LinearOrder ==
    \A p \in Procs :
        /\ run[p].pc = "migrate" =>
                \A j \in 1..(run[p].i - 1) : migrations[j] \in ledger
        /\ \A k \in Range(run[p].invoked) :
                \A j \in 1..(k - 1) : migrations[j] \in ledger

\* The third action is about to be invoked after the first two were applied.
C7_Witness ==
    \E p \in Procs :
        /\ run[p].pc = "migrate" /\ run[p].i = 3
        /\ run[p].invoked = <<1, 2>>

\* ------------------------------------------------------------------------
\* C8  Init-schema failure
\* ------------------------------------------------------------------------

\* C8 (as stated): when the init-schema function has failed, the run returns
\* that error, has written no ledger entry, the ledger is empty, and no
\* migration action was invoked.
C8_InitFailureLeavesEmptyLedger ==
    \A p \in Procs :
        (Done(p) /\ run[p].initFailed) =>
            /\ run[p].err = ErrInitSchemaFunc
            /\ run[p].inserted = <<>>
            /\ ledger = {}
            /\ run[p].invoked = <<>>

\* ------------------------------------------------------------------------
\* C9  Store errors are fatal
\* ------------------------------------------------------------------------
ErrIsFirstRun == "db error: select count"

\* The error the failing statement hands back.
ErrOf(op) ==
    CASE op = "createTable" -> ErrCreateTable
      [] op = "isFirstRun" -> ErrIsFirstRun
      [] op = "didRun" -> ErrDidRun
      [] op = "insert" -> ErrInsert

\* C9 (as stated): when a ledger statement of the run has failed, the run
\* returns that statement's error, and neither the init-schema function nor
\* a migration action was executed after the failure.
C9_StoreErrorsFatal ==
    \A p \in Procs :
        (Done(p) /\ run[p].failedOp # "none") =>
            /\ run[p].err = ErrOf(run[p].failedOp)
            /\ ~run[p].ranAfterFail

\* ------------------------------------------------------------------------
\* C10  Configuration gate
\* ------------------------------------------------------------------------

\* C10: while no call of Config has succeeded, a call of ExecuteCommand or
\* MigrateDB returns ErrNotConfigured and changes nothing in the database,
\* the engine or the configuration; a call of Config with a nil option or a
\* nil Store returns ErrInvalidOption and leaves migrationOp and db as they
\* were.
C10_ConfigGate ==
    [][ /\ (~configured /\ ret' # ret /\ ret'.op \in {"ExecuteCommand", "MigrateDB"}) =>
              /\ ret'.err = ErrNotConfigured
              /\ UNCHANGED <<dbState, engineState, configState>>
        /\ (/\ ret' # ret /\ ret'.op = "Config"
            /\ (ret'.arg = <<"nil">> \/ (Len(ret'.arg) = 3 /\ ret'.arg[2] = "nil"))) =>
              /\ ret'.err = ErrInvalidOption
              /\ UNCHANGED configState
      ]_vars

\* The migrate command was refused on an unconfigured package, and nothing
\* was run.
C10_Witness ==
    /\ ~configured /\ migrationOp.nil
    /\ ret = [op |-> "ExecuteCommand", arg |-> <<CommandMigrate>>, err |-> ErrNotConfigured]
    /\ runs = 0
    /\ Len(migrations) = 1

\* ------------------------------------------------------------------------
\* C11  Resume after abort
\* ------------------------------------------------------------------------

\* C11: in the run that follows a run aborted by a failing migration action,
\* no action is invoked for an identifier that was recorded when the run
\* started, and the first action invoked is that of the first position of
\* the list whose identifier was not recorded.
C11_Resume ==
    \A p \in Procs :
        (prev = ErrMigrateFunc /\ run[p].pc # "idle") =>
            /\ \A k \in Range(run[p].invoked) : migrations[k] \notin run[p].startLedger
            /\ Len(run[p].invoked) >= 1 =>
                    /\ PendingAt(run[p].startLedger) # <<>>
                    /\ run[p].invoked[1] = PendingAt(run[p].startLedger)[1]

\* The first run applied position 1 and failed at position 2; the second run
\* skipped position 1 and invoked position 2 first.
C11_Witness ==
    \E p \in Procs :
        /\ Done(p) /\ prev = ErrMigrateFunc /\ run[p].err = Nil
        /\ Len(migrations) >= 2
        /\ applied[1] = 1
        /\ migrations[1] \in run[p].startLedger
        /\ migrations[2] \notin run[p].startLedger
        /\ run[p].invoked[1] = 2

\* ------------------------------------------------------------------------
\* C12  Inconsistency window
\* ------------------------------------------------------------------------

\* The insert that follows a successful action has failed in the run of p.
InsertLost(p) ==
    Done(p) /\ run[p].path = "incremental" /\ run[p].failedOp = "insert"

\* Position k lost its insert before the run of p and was unrecorded when
\* that run started, which follows a run that returned the insert error.
LostBefore(p, k) ==
    /\ Done(p) /\ prev = ErrInsert
    /\ lostInsert[k] >= 1
    /\ migrations[k] \notin run[p].startLedger

\* What C12 says of the run in which the insert fails: it returns the
\* insert error, the identifier is not in the ledger, and nothing at a later
\* position was invoked or recorded.
AbortsOnLostInsert(p) ==
    InsertLost(p) =>
        LET k == run[p].i IN
        /\ run[p].err = ErrInsert
        /\ k \in Range(run[p].invoked) /\ applied[k] >= 1 /\ lostInsert[k] >= 1
        /\ migrations[k] \notin ledger
        /\ \A j \in Positions :
             j > k => j \notin Range(run[p].invoked) /\ j \notin Range(run[p].inserted)

\* C12 (as stated): the run in which the insert fails aborts as above, and
\* the next run invokes the action of the same migration again.
C12_NextRunReapplies ==
    \A p \in Procs :
        /\ AbortsOnLostInsert(p)
        /\ \A k \in Positions : LostBefore(p, k) => k \in Range(run[p].invoked)

\* C12 (amended): the run in which the insert fails aborts as above, and the
\* next run invokes the action of the same migration again unless one of its
\* own ledger statements fails.
C12_LostInsert ==
    \A p \in Procs :
        /\ AbortsOnLostInsert(p)
        /\ \A k \in Positions :
             LostBefore(p, k) => k \in Range(run[p].invoked) \/ run[p].failedOp # "none"

\* The second position lost its insert in the first run and was applied
\* again, and recorded, in the second.
C12_Witness ==
    \E p \in Procs :
        /\ Done(p) /\ prev = ErrInsert /\ run[p].err = Nil
        /\ Len(migrations) >= 2
        /\ lostInsert[2] = 1 /\ applied[2] = 2
        /\ run[p].invoked = <<2>>
        /\ migrations[2] \in ledger

\* ------------------------------------------------------------------------
\* C13  Concurrent migrators
\* ------------------------------------------------------------------------

\* C13: when two engines run Migrate concurrently, the identifier at a
\* position is inserted by at most one of them; when both have invoked the
\* action of the same position with success and both have returned, one of
\* them returned the error of its insert, which wrote nothing.  (That both
\* can get there is C13_Witness.)
C13_OneInsertWins ==
    \A p, q \in Procs : \A k \in Positions :
        p # q =>
            /\ ~(k \in Range(run[p].inserted) /\ k \in Range(run[q].inserted))
            /\ (/\ Done(p) /\ Done(q)
                /\ k \in Range(run[p].invoked) /\ run[p].failedAt # k
                /\ k \in Range(run[q].invoked) /\ run[q].failedAt # k) =>
                   \/ run[p].err = ErrInsert /\ k \notin Range(run[p].inserted)
                   \/ run[q].err = ErrInsert /\ k \notin Range(run[q].inserted)

\* Both engines found the identifier unrecorded and invoked its action with
\* success; p has inserted it, and q is about to insert the same primary key.
C13_Witness ==
    \E p, q \in Procs : \E k \in Positions :
        /\ p # q
        /\ k \in Range(run[p].invoked) /\ k \in Range(run[p].inserted)
        /\ run[q].pc = "insert" /\ run[q].i = k
        /\ k \in Range(run[q].invoked)
        /\ applied[k] = 2
        /\ migrations[k] \in ledger
        /\ ~InsertOk(migrations[k], TRUE)

\* ------------------------------------------------------------------------
\* C14  The ledger is append-only
\* ------------------------------------------------------------------------

\* C14: no step of any run, on either path, whether the run succeeds or
\* aborts, removes or changes an entry of the ledger: the set of entries
\* only grows.
C14_AppendOnly == [][ledger \subseteq ledger']_vars

\* An aborted run that started on a non-empty ledger has added to it.
C14_Witness ==
    \E p \in Procs :
        /\ Done(p) /\ run[p].err # Nil
        /\ run[p].startLedger # {}
        /\ run[p].inserted # <<>>
        /\ run[p].startLedger \subseteq ledger /\ ledger # run[p].startLedger

\* ------------------------------------------------------------------------
\* C15  Init-schema runs once
\* ------------------------------------------------------------------------

\* C15 (as stated): over the runs of a behaviour the init-schema function
\* returns success at most once, whatever the list.
C15_InitOnce == initDone <= 1

\* C15 (amended): the init-schema function is called at most once in a run,
\* and only in a run that started on a ledger with zero rows or whose
\* is-empty read failed; it returns success at most once per run.
C15_InitOncePerEmptyLedger ==
    /\ initDone <= runs
    /\ \A p \in Procs :
        /\ run[p].initCalls <= 1
        /\ run[p].initCalls = 1 =>
              /\ run[p].initSchema
              /\ run[p].startLedger = {} \/ run[p].failedOp = "isFirstRun"

\* With an empty list the bootstrap records nothing, and the second run has
\* run the init-schema function again.
C15_Witness ==
    \E p \in Procs :
        /\ Done(p) /\ run[p].err = Nil
        /\ migrations = <<>>
        /\ initDone = 2
        /\ run[p].initCalls = 1 /\ run[p].failedOp = "none"
        /\ ledger = {}

\* ------------------------------------------------------------------------
\* C16  Path selection
\* ------------------------------------------------------------------------

\* C16 (as stated, for a run that got past the creation of the table): the
\* init-schema function is invoked if and only if one is supplied and the
\* ledger had zero rows when the run started; otherwise the run takes the
\* list one by one.
C16_PathSelection ==
    \A p \in Procs :
        (Done(p) /\ run[p].path # "none") =>
            LET boot == run[p].initSchema /\ run[p].startLedger = {} IN
            /\ run[p].initCalls >= 1 <=> boot
            /\ run[p].path = "incremental" <=> ~boot

\* ------------------------------------------------------------------------
\* C17  Ledger table creation
\* ------------------------------------------------------------------------

\* C17: the step that ensures the table leaves every ledger entry as it was;
\* it changes the table only by creating it when it was absent; when it does
\* not fail the table is there; and no step of the engine drops the table.
C17_TableCreation ==
    [][ /\ table => table'
        /\ \A p \in Procs :
             (run[p].pc = "createTable" /\ run'[p].pc # "createTable") =>
                /\ ledger' = ledger
                /\ table' # table => ~table /\ table'
                /\ run'[p].failedOp # "createTable" => table'
      ]_vars

\* The table was there with entries in it: the step changed nothing and the
\* run went on to the list.
C17_Witness ==
    \E p \in Procs :
        /\ run[p].pc = "runMigration" /\ run[p].i = 1
        /\ table
        /\ run[p].startLedger # {} /\ ledger = run[p].startLedger
        /\ run[p].failedOp = "none"

\* ------------------------------------------------------------------------
\* C18  Completion
\* ------------------------------------------------------------------------

\* No statement, migration function or init-schema function of the run of p
\* has failed.
NoFailure(p) ==
    run[p].failedOp = "none" /\ run[p].failedAt = 0 /\ ~run[p].initFailed

\* C18: every run of Migrate returns; when nothing in it failed and the list
\* holds no empty identifier it returns no error; and whenever it returns no
\* error every identifier of the list is in the ledger.
C18_Completion ==
    /\ \A p \in Procs : (run[p].pc # "idle") ~> Done(p)
    /\ [](\A p \in Procs :
            Done(p) =>
                /\ (NoFailure(p) /\ NonEmptyIds) => run[p].err = Nil
                /\ run[p].err = Nil => ListIds \subseteq ledger)

\* A run over two migrations in which nothing failed has returned no error
\* with both recorded.
C18_Witness ==
    \E p \in Procs :
        /\ Done(p) /\ NoFailure(p) /\ NonEmptyIds /\ UniqueIds
        /\ Len(migrations) = MaxLiveLen
        /\ run[p].err = Nil
        /\ run[p].inserted = <<1, 2>>
        /\ ListIds \subseteq ledger

\* ------------------------------------------------------------------------
\* C19  Ledger provenance
\* ------------------------------------------------------------------------

\* The run of p is about to record the migration whose action it has just
\* invoked with success.
RecordsApplied(p) ==
    LET r == run[p] IN
    /\ r.pc = "insert" /\ r.path = "incremental"
    /\ r.invoked # <<>> /\ r.invoked[Len(r.invoked)] = r.i
    /\ r.failedAt = 0

\* The run of p is about to record a migration of the list after its
\* init-schema function returned success.
RecordsBootstrapped(p) ==
    LET r == run[p] IN
    /\ r.pc = "insertInit" /\ r.path = "bootstrap"
    /\ r.initCalls = 1 /\ ~r.initFailed

\* C19: every identifier that enters the ledger is the identifier of a
\* migration of the list of a run in progress, entered by that run either on
\* the incremental path after the migration's action returned success in
\* the run, or on the bootstrap path after the init-schema function returned
\* success in the run.
C19_Provenance ==
    [][\A id \in ledger' \ ledger :
         \E p \in Procs :
            /\ run[p].i \in Positions
            /\ id = migrations[run[p].i]
            /\ run'[p].inserted = Append(run[p].inserted, run[p].i)
            /\ RecordsApplied(p) \/ RecordsBootstrapped(p)]_vars

\* [A, B]: a first run bootstrapped and recorded A, lost the insertion of B;
\* the second run applied B and recorded it.
C19_Witness ==
    \E p \in Procs :
        /\ Done(p) /\ runs = 2 /\ initDone = 1
        /\ Len(migrations) = 2 /\ UniqueIds /\ NonEmptyIds
        /\ run[p].path = "incremental"
        /\ run[p].startLedger = {migrations[1]}
        /\ run[p].invoked = <<2>> /\ run[p].inserted = <<2>>
        /\ ledger = ListIds

TypeOK ==
    /\ ledger \subseteq Ids
    /\ \A p \in Procs : run[p].pc \in {"idle", "createTable", "isFirstRun", "runInitSchema",
                                       "insertInit", "runMigration", "migrate", "insert", "done"}
====
